---- MODULE Spec2Model ----
(***************************************************************************)
(* Smart Study Scheduler (src/app.py): the planner smart_generate_plan and *)
(* the progress ledger handlers of page_scheduler, page_tasks and the      *)
(* Dashboard, for one signed-in learner.                                   *)
(*                                                                         *)
(* Units.  Hours are held in hundredths of an hour (the code rounds every  *)
(* stored hour value to 2 decimals): 4.0 h is 400.  Scores are held as     *)
(* weight*2 x urgency*100 x boost*20, so that every factor is an integer.  *)
(*                                                                         *)
(* Floating point.  The code computes in binary doubles.  A double differs *)
(* from the decimal value it stands for by a relative error of about       *)
(* 1e-16, which decides the outcome of round(x, 2) only when x is exactly  *)
(* halfway between two hundredths, and of a comparison with 0.01 only when *)
(* the value is 0.01 up to that error.  In exactly these cases the model   *)
(* admits both outcomes (RoundSet, LeqCentSet); everywhere else the result *)
(* is the exact one.  The planner therefore yields a set of plans.         *)
(***************************************************************************)
EXTENDS Integers, Sequences, FiniteSets, TLC

VARIABLES
    subjects,       \* st.session_state.subjects[username]: sequence of subjects
    plan,           \* st.session_state.plans[username]
    progress,       \* st.session_state.progress[username]: the ledger
    streaks,        \* st.session_state.streaks[username]
    notifications,  \* st.session_state.notifications: username -> list of notes
    users,          \* st.session_state.users, in insertion order
    logged_in,      \* st.session_state.logged_in
    show_signup,    \* st.session_state.show_signup
    show_forgot,    \* st.session_state.show_forgot
    saved,          \* data/<username>.json: the payload persist_user wrote last
    last,           \* the handler that ran last, its inputs and the message it showed
    call,           \* a direct call of smart_generate_plan: its inputs and result
    session2        \* st.session_state of a second browser session (the learner's values)

\* username stands for the learner whose subjects, plan, ledger and streak the
\* first four variables hold.
auth == <<users, logged_in, show_signup, show_forgot>>

vars == <<subjects, plan, progress, streaks, notifications, auth, saved, last, call, session2>>

----------------------------------------------------------------------------
\* Bounds of the model.

\* Subjects a learner holds (through "Add subject").
MaxSubjects == 2
\* Days to plan offered to "Generate schedule".
MaxDays == 2
\* The highest day number a skip may carry tasks to.
MaxLabel == 3
\* Target hours per day offered to "Generate schedule", in steps of 0.5 h.
MaxHalfHours == 2
\* Completions performed in one run.
MaxStreak == 3
\* Notes kept in one user's notification list.
MaxNotes == 2
\* Direct calls of the planner: days and half hours.
CallMaxDays == 3
CallMaxHalfHours == 24

----------------------------------------------------------------------------
\* Values.

Max(a, b) == IF a >= b THEN a ELSE b
Min(a, b) == IF a <= b THEN a ELSE b

RECURSIVE SumSeq(_)
SumSeq(s) == IF s = <<>> THEN 0 ELSE Head(s) + SumSeq(Tail(s))

\* plans[username] is None until a schedule is generated.
NoPlan == [present |-> FALSE, days |-> <<>>]
\* A plan: the dict of day label -> task list, in insertion order.
MkPlan(dayseq) == [present |-> TRUE, days |-> dayseq]
\* `if not plan`: None and the empty dict are both falsy.
PlanFalsy(p) == ~p.present \/ p.days = <<>>

\* "date": None
NoDate == 0

\* No exam date given / the exam date's distance (exam_date - utcnow()).days.
NoExam == [given |-> FALSE, delta |-> 0]
ExamIn(n) == [given |-> TRUE, delta |-> n]

\* DayLabel counting the days from 0.
DayLabelFromZero(d) == <<"Day", d - 1>>

\* f"Day {d}": the label as its whitespace-separated tokens.
DayLabel(d) == <<"Day", d>>

\* Character codes of the subject names used (ord(c) for c in name).
CharCodes(name) ==
    CASE name = "Math" -> <<77, 97, 116, 104>>
      [] name = "History" -> <<72, 105, 115, 116, 111, 114, 121>>
      [] name = "Art" -> <<65, 114, 116>>
      [] name = "Mathematics" -> <<77, 97, 116, 104, 101, 109, 97, 116, 105, 99, 115>>
      [] name = "Physics" -> <<80, 104, 121, 115, 105, 99, 115>>
      [] name = "Chemistry" -> <<67, 104, 101, 109, 105, 115, 116, 114, 121>>
      [] name = "English Literature" ->
            <<69, 110, 103, 108, 105, 115, 104, 32, 76, 105, 116, 101, 114, 97, 116, 117, 114, 101>>
      [] name = "Computer Science" ->
            <<67, 111, 109, 112, 117, 116, 101, 114, 32, 83, 99, 105, 101, 110, 99, 101>>
      [] OTHER -> <<>>

tips == << "Focus on problem solving",
           "Review weak topics first",
           "Practice previous questions",
           "Do a short self-quiz",
           "Summarize key formulas",
           "Teach this topic to an imaginary friend" >>

pick_focus_note(subject_name) ==
    LET idx == SumSeq(CharCodes(subject_name)) % Len(tips)
    IN  tips[idx + 1]

----------------------------------------------------------------------------
\* Planner algorithm: smart_generate_plan.

Subject(name, difficulty) == [name |-> name, difficulty |-> difficulty]
Task(subject, hours, note) == [subject |-> subject, hours |-> hours, note |-> note]

\* weights.get(difficulty, 1.5), times 2.
weights(difficulty) ==
    CASE difficulty = "easy" -> 2
      [] difficulty = "medium" -> 3
      [] difficulty = "hard" -> 5
      [] OTHER -> 3

\* urgency, times 100.
urgency(exam_date) ==
    IF ~exam_date.given THEN 100
    ELSE LET days_until_exam == Max(exam_date.delta, 0)
         IN  IF days_until_exam <= 7 THEN 100 + (8 - days_until_exam) * 12
             ELSE IF days_until_exam <= 30 THEN 100 + (30 - days_until_exam) * 3
             ELSE 100

\* boost, times 20: 1.15 for a focus subject.
boost(name, focus_subjects) == IF name \in focus_subjects THEN 23 ELSE 20

\* The score 1.0 in the model's unit (2 x 100 x 20).
ScoreOne == 4000

\* scores: the list of (name, w * urgency * boost).
scores(subs, exam_date, focus_subjects) ==
    [i \in 1..Len(subs) |->
        <<subs[i].name,
          weights(subs[i].difficulty) * urgency(exam_date) * boost(subs[i].name, focus_subjects)>>]

\* total_score = sum(...) or 1.0
total_score(sc) ==
    LET s == SumSeq([i \in 1..Len(sc) |-> sc[i][2]])
    IN  IF s = 0 THEN ScoreOne ELSE s

\* round(x, 2) of x = num/den hundredths.  An exact half is rounded by the
\* binary representation of x, which can fall on either side.
RoundSet(num, den) ==
    LET q == num \div den
        r == num % den
    IN  IF 2 * r < den THEN {q}
        ELSE IF 2 * r > den THEN {q + 1}
        ELSE {q, q + 1}

\* x <= 0.01 for x a value carrying floating-point error.
LeqCentSet(x) == IF x = 1 THEN {TRUE, FALSE} ELSE {x <= 1}

\* The keys of the dict comprehension over scores: each name once, in the
\* order of its first occurrence.
RECURSIVE DictKeys(_, _)
DictKeys(sc, seen) ==
    IF sc = <<>> THEN <<>>
    ELSE IF Head(sc)[1] \in seen THEN DictKeys(Tail(sc), seen)
    ELSE <<Head(sc)[1]>> \o DictKeys(Tail(sc), seen \cup {Head(sc)[1]})

\* The value the dict comprehension keeps for a key: its last occurrence.
DictValue(sc, name) ==
    LET i == CHOOSE k \in 1..Len(sc) :
                 sc[k][1] = name /\ \A j \in (k + 1)..Len(sc) : sc[j][1] # name
    IN  sc[i][2]

\* subj_totals = {name: max(0.5, round(score / total_score * total_hours, 2))}
RECURSIVE SubjTotalsSet(_, _, _, _)
SubjTotalsSet(keys, sc, total, total_hours) ==
    IF keys = <<>> THEN {<<>>}
    ELSE LET name == Head(keys)
             vals == {Max(50, r) : r \in RoundSet(DictValue(sc, name) * total_hours, total)}
         IN  UNION {{(name :> v) @@ rest : v \in vals} :
                        rest \in SubjTotalsSet(Tail(keys), sc, total, total_hours)}

\* sorted(subj_totals.items(), key=lambda x: -x[1]): stable, descending.
RECURSIVE InsertDesc(_, _, _)
InsertDesc(sorted, name, tot) ==
    IF sorted = <<>> THEN <<name>>
    ELSE IF tot[Head(sorted)] >= tot[name]
         THEN <<Head(sorted)>> \o InsertDesc(Tail(sorted), name, tot)
         ELSE <<name>> \o sorted

RECURSIVE SortDesc(_, _, _)
SortDesc(keys, sorted, tot) ==
    IF keys = <<>> THEN sorted
    ELSE SortDesc(Tail(keys), InsertDesc(sorted, Head(keys), tot), tot)

subject_order(keys, tot) == SortDesc(keys, <<>>, tot)

\* AllocSet without the cap by the day's remaining budget.
AllocSetNoCap(remaining, subj_total, remaining_days) ==
    IF subj_total <= 25 * remaining_days THEN {25}
    ELSE RoundSet(subj_total, remaining_days)

\* alloc = round(min(remaining, max(0.25, ideal_alloc)), 2),
\* ideal_alloc = subj_total / remaining_days.
AllocSet(remaining, subj_total, remaining_days) ==
    IF subj_total <= 25 * remaining_days THEN {Min(remaining, 25)}
    ELSE IF subj_total >= remaining * remaining_days THEN {remaining}
    ELSE RoundSet(subj_total, remaining_days)

\* The inner loop over subject_order from position i on.  st holds the day's
\* tasks so far, subj_totals, remaining, whether the loop ended by break and
\* whether remaining was compared with 0.01 after an allocation.
RECURSIVE ScanSubjects(_, _, _, _, _)
ScanSubjects(order, i, st, days, d) ==
    IF i > Len(order) THEN {st}
    ELSE
      LET name == order[i]
          remaining_days == Max(1, days - d + 1)
          allocs == AllocSet(st.remaining, st.tot[name], remaining_days)
          next == ScanSubjects(order, i + 1, st, days, d)
          Take(alloc) ==
              LET st2 == [st EXCEPT !.tasks = Append(@, Task(name, alloc, pick_focus_note(name))),
                                    !.remaining = @ - alloc,
                                    !.tot[name] = @ - alloc,
                                    !.tested = TRUE]
              IN  UNION {IF brk THEN {[st2 EXCEPT !.broke = TRUE]}
                         ELSE ScanSubjects(order, i + 1, st2, days, d) :
                             brk \in LeqCentSet(st2.remaining)}
          Live == UNION {IF alloc <= 0 THEN next ELSE Take(alloc) : alloc \in allocs}
      IN  UNION {IF exhausted THEN next ELSE Live : exhausted \in LeqCentSet(st.tot[name])}

\* DayResults closing every day with "Review & Breaks", whatever is left,
\* and keeping every task.
DayResultsAlwaysReview(order, tot, hours_per_day, days, d) ==
    LET start == [tasks |-> <<>>, tot |-> tot, remaining |-> hours_per_day,
                  broke |-> FALSE, tested |-> FALSE]
    IN  {[tasks |-> Append(r.tasks,
                           Task("Review & Breaks", r.remaining, "Light review / short breaks")),
          tot |-> r.tot] :
             r \in ScanSubjects(order, 1, start, days, d)}

\* One day of the outer loop: the day's task list and subj_totals after it.
DayResults(order, tot, hours_per_day, days, d) ==
    LET start == [tasks |-> <<>>, tot |-> tot, remaining |-> hours_per_day,
                  broke |-> FALSE, tested |-> FALSE]
        Review(r) == Task("Review & Breaks", r.remaining, "Light review / short breaks")
        Close(r) ==
            IF r.broke THEN {r.tasks}
            ELSE IF r.tested THEN {Append(r.tasks, Review(r))}
            ELSE {IF leq THEN r.tasks ELSE Append(r.tasks, Review(r)) :
                      leq \in LeqCentSet(r.remaining)}
    IN  UNION {{[tasks |-> SelectSeq(ts, LAMBDA t : t.hours > 0), tot |-> r.tot] :
                    ts \in Close(r)} :
               r \in ScanSubjects(order, 1, start, days, d)}

RECURSIVE PlanDays(_, _, _, _, _)
PlanDays(order, tot, hours_per_day, days, d) ==
    IF d > days THEN {<<>>}
    ELSE UNION {{<<[day |-> DayLabel(d), tasks |-> r.tasks]>> \o rest :
                     rest \in PlanDays(order, r.tot, hours_per_day, days, d + 1)} :
                r \in DayResults(order, tot, hours_per_day, days, d)}

\* The plans smart_generate_plan can return.
smart_generate_plan(subs, hours_per_day, days, exam_date, focus_subjects) ==
    LET sc == scores(subs, exam_date, focus_subjects)
        keys == DictKeys(sc, {})
        total_hours == hours_per_day * days
    IN  UNION {{MkPlan(p) : p \in PlanDays(subject_order(keys, tot), tot, hours_per_day, days, 1)} :
               tot \in SubjTotalsSet(keys, sc, total_score(sc), total_hours)}

----------------------------------------------------------------------------
\* Inputs the handlers are offered.

\* "Add subject": the (subject name, difficulty) pairs submitted.  A name may
\* be added twice; the form does not look for it in the list.
SubjectForms ==
    {Subject("Math", "hard"), Subject("History", "easy"), Subject("Math", "easy")}
SubjectNames == {s.name : s \in SubjectForms}
\* "Exam date (optional)": none, or (exam_date - utcnow()).days.
ExamDates == {NoExam, ExamIn(3)}
\* number_input("Target Hours/Day", min_value=0.5, step=0.5)
HoursChoices == {50 * k : k \in 1..MaxHalfHours}
\* number_input("Days to plan", min_value=1, step=1)
DaysChoices == 1..MaxDays

\* user["goal_hours_per_day"], 3.0 for every account the code creates.
goal_hours_per_day == 300

\* "Auto-fill example subjects"
ExampleSubjects ==
    << Subject("Mathematics", "hard"),
       Subject("Physics", "hard"),
       Subject("Chemistry", "medium"),
       Subject("English Literature", "easy"),
       Subject("Computer Science", "medium") >>

----------------------------------------------------------------------------
\* The ledger.

Entry(day, tasks, completed, date) ==
    [day |-> day, tasks |-> tasks, completed |-> completed, date |-> date]

\* LedgerOf creating the entries without the tasks of their day.
LedgerOfEmpty(p) ==
    [i \in 1..Len(p.days) |-> Entry(p.days[i].day, <<>>, FALSE, NoDate)]

\* LedgerOf creating no entry.
LedgerOfNone(p) == <<>>

\* for day_label, tasks in plan.items(): progress.append({"day": day_label,
\*   "tasks": [t.copy() for t in tasks], "completed": False, "date": None})
LedgerOf(p) ==
    [i \in 1..Len(p.days) |-> Entry(p.days[i].day, p.days[i].tasks, FALSE, NoDate)]

\* sum(float(t.get("hours", 0)) for t in tasks)
TaskHours(tasks) == SumSeq([i \in 1..Len(tasks) |-> tasks[i].hours])

\* PlanGet finding no such day.
PlanGetNone(p, label) == <<>>

\* plan.get("Day 1", [])
PlanGet(p, label) ==
    IF \E i \in 1..Len(p.days) : p.days[i].day = label
    THEN p.days[CHOOSE i \in 1..Len(p.days) : p.days[i].day = label].tasks
    ELSE <<>>

\* list.index(x) / the position list.remove(x) deletes: the first equal element.
IndexOf(seq, x) == CHOOSE i \in 1..Len(seq) : seq[i] = x /\ \A j \in 1..(i - 1) : seq[j] # x

\* list.remove: the list without its element at position i.
RemoveAt(seq, i) == SubSeq(seq, 1, i - 1) \o SubSeq(seq, i + 1, Len(seq))

\* InsertAt adding at the end of the list.
InsertAtEnd(seq, i, x) == Append(seq, x)

\* list.insert(i, x), positions counted from 1.
InsertAt(seq, i, x) == SubSeq(seq, 1, i - 1) \o <<x>> \o SubSeq(seq, i, Len(seq))

\* CarryInto replacing the next day's tasks by the carried ones.
CarryIntoOverwrite(ledger, j, tasks) == [ledger EXCEPT ![j].tasks = tasks]

\* CarryInto putting the carried tasks first.
CarryIntoFirst(ledger, j, tasks) == [ledger EXCEPT ![j].tasks = tasks \o @]

\* CarryInto making the next day's entry Pending again.
CarryIntoReopen(ledger, j, tasks) ==
    [ledger EXCEPT ![j].tasks = @ \o tasks, ![j].completed = FALSE]

\* found_next["tasks"].extend([t.copy() for t in entry["tasks"]])
CarryInto(ledger, j, tasks) == [ledger EXCEPT ![j].tasks = @ \o tasks]

\* CanComplete offering the button for every entry.
CanCompleteAlways(entry) == TRUE

\* if not entry.get("completed"): the "Mark Complete" button is offered.
CanComplete(entry) == ~entry.completed

\* StreakAfter leaving best as it is.
StreakAfterKeepBest(s) == [current |-> s.current + 1, best |-> s.best]

\* s["current"] += 1; s["best"] = max(s["best"], s["current"])
StreakAfter(s) ==
    LET current == s.current + 1
    IN  [current |-> current, best |-> Max(s.best, current)]

\* The label of the following day, always built by the fallback.
NextLabelUnparsed(day) == day \o <<"(tasks appended)">>

\* f"Day {int(day.split()[1]) + 1}", or day + " (tasks appended)" when the
\* label has no second token.
NextLabel(day) ==
    IF Len(day) >= 2 THEN <<"Day", day[2] + 1>>
    ELSE day \o <<"(tasks appended)">>

\* tasks.sort(key=lambda x: x.get("hours", 0), reverse=True): stable.
RECURSIVE InsertByHours(_, _)
InsertByHours(sorted, t) ==
    IF sorted = <<>> THEN <<t>>
    ELSE IF Head(sorted).hours >= t.hours
         THEN <<Head(sorted)>> \o InsertByHours(Tail(sorted), t)
         ELSE <<t>> \o sorted

RECURSIVE SortByHours(_, _)
SortByHours(tasks, sorted) ==
    IF tasks = <<>> THEN sorted
    ELSE SortByHours(Tail(tasks), InsertByHours(sorted, Head(tasks)))

\* total_days = len(plan) if plan else 0
total_days(p) == IF PlanFalsy(p) THEN 0 ELSE Len(p.days)

\* The subject lists "Add subject" and "Auto-fill example subjects" can build.
SubjectLists ==
    UNION {[1..n -> SubjectForms] : n \in 0..MaxSubjects} \cup {ExampleSubjects}

\* smart_generate_plan over the inputs "Generate schedule" is offered,
\* evaluated once.
GeneratedPlans ==
    [a \in SubjectLists \X HoursChoices \X DaysChoices \X ExamDates \X (SUBSET SubjectNames) |->
        smart_generate_plan(a[1], a[2], a[3], a[4], a[5])] @@ <<>>

\* plan = smart_generate_plan(...), as the handlers call it.
PlansFor(subs, hours_per_day, days, exam_date, focus_subjects) ==
    IF <<subs, hours_per_day, days, exam_date, focus_subjects>> \in DOMAIN GeneratedPlans
    THEN GeneratedPlans[<<subs, hours_per_day, days, exam_date, focus_subjects>>]
    ELSE smart_generate_plan(subs, hours_per_day, days, exam_date, focus_subjects)

\* What the handler that ran last was, on which day, and the message shown.
Last(op, day, n, kind) == [op |-> op, day |-> day, n |-> n, kind |-> kind]

NoCall == [subs |-> <<>>, hours |-> 0, days |-> 0, exam |-> NoExam, focus |-> {},
           done |-> FALSE, result |-> NoPlan]

\* What a browser session holds in st.session_state for the learner, with
\* the handler that session ran last.
Session(user, subs, p, ledger, s, notes, l) ==
    [logged_in |-> user, subjects |-> subs, plan |-> p, progress |-> ledger,
     streaks |-> s, notifications |-> notes, last |-> l]

\* No second session is open.
NoSession == Session("", <<>>, NoPlan, <<>>, [current |-> 0, best |-> 0], <<>>,
                     Last("init", <<>>, 0, "none"))

----------------------------------------------------------------------------
\* Accounts and persistence.

\* st.session_state.logged_in = None
NoUser == ""
\* The learner whose subjects, plan, ledger and streak the model holds.
Learner == "user1"
\* The usernames that occur.
Usernames == {"user1", "user2"}

\* An entry of st.session_state.users (name, photo and goal left out).
Account(username, email, password) ==
    [username |-> username, email |-> email, password |-> password]

\* The users the code creates when data/users.json holds none.
DemoUsers == <<Account("user1", "alex@example.com", "pass123")>>

\* {"current": 0, "best": 0}
NoStreak == [current |-> 0, best |-> 0]
\* notifications.get(username, []) for every username.
NoNotes == [u \in Usernames |-> <<>>]

\* The payload of persist_user ("saved_at" left out).
Payload(subs, p, ledger, s, notes) ==
    [subjects |-> subs, plan |-> p, progress |-> ledger, streaks |-> s, notifications |-> notes]

\* What st.session_state holds for username: the learner's values, and the
\* defaults of ensure_user_storage for any other account.
InMemory(username, subs, p, ledger, s, notes) ==
    IF username = Learner THEN Payload(subs, p, ledger, s, notes[username])
    ELSE Payload(<<>>, NoPlan, <<>>, NoStreak, notes[username])

\* persist_user(username): called when the handler's writes are done.
persist_user(username) ==
    saved' = (username :> InMemory(username, subjects', plan', progress', streaks',
                                   notifications')) @@ saved

\* run_app: the pages are shown to a signed-in user.
SignedIn == logged_in = Learner

----------------------------------------------------------------------------
\* The state after the demo account has signed in for the first time
\* (ensure_user_storage, persist_user).

Init ==
    /\ subjects = <<>>
    /\ plan = NoPlan
    /\ progress = <<>>
    /\ streaks = NoStreak
    /\ notifications = NoNotes
    /\ users = DemoUsers
    /\ logged_in = Learner
    /\ show_signup = FALSE
    /\ show_forgot = FALSE
    /\ saved = (Learner :> Payload(<<>>, NoPlan, <<>>, NoStreak, <<>>))
    /\ last = Last("init", <<>>, 0, "none")
    /\ call = NoCall
    /\ session2 = NoSession

----------------------------------------------------------------------------
\* page_scheduler.

\* "Add subject": if add and name.
AddSubject(name, diff) ==
    /\ SignedIn
    /\ Len(subjects) < MaxSubjects
    /\ name # ""
    /\ subjects' = Append(subjects, Subject(name, diff))
    /\ last' = Last("add_subject", <<>>, 0, "success")
    /\ UNCHANGED <<plan, progress, streaks, notifications, auth, call, session2>>
    /\ persist_user(Learner)

\* "Generate schedule".
Generate(hours_per_day, days, exam_date, priority) ==
    /\ SignedIn
    /\ priority \subseteq {subjects[i].name : i \in 1..Len(subjects)}
    /\ UNCHANGED <<subjects, streaks, notifications, auth, call, session2>>
    /\ IF subjects = <<>>
       THEN /\ last' = Last("generate", <<>>, days, "error")
            /\ UNCHANGED <<plan, progress, saved>>
       ELSE /\ \E p \in PlansFor(subjects, hours_per_day, days, exam_date, priority) :
                  /\ plan' = p
                  /\ progress' = LedgerOf(p)
            /\ last' = Last("generate", <<>>, days, "success")
            /\ persist_user(Learner)

\* "Regenerate with same settings".
Regenerate ==
    /\ SignedIn
    /\ UNCHANGED <<subjects, streaks, notifications, auth, call, session2>>
    /\ IF PlanFalsy(plan)
       THEN /\ last' = Last("regenerate", <<>>, 0, "warning")
            /\ UNCHANGED <<plan, progress, saved>>
       ELSE LET days == Len(plan.days)
                first == PlanGet(plan, DayLabel(1))
                hours == IF first # <<>> THEN TaskHours(first) ELSE goal_hours_per_day
                h == IF hours # 0 THEN hours ELSE goal_hours_per_day
                n == IF days # 0 THEN days ELSE 14
            IN  /\ \E p \in PlansFor(subjects, h, n, NoExam, {}) :
                      /\ plan' = p
                      /\ progress' = LedgerOf(p)
                /\ last' = Last("regenerate", <<>>, n, "success")
                /\ persist_user(Learner)

\* "Auto-fill example subjects".
AutoFill ==
    /\ SignedIn
    /\ subjects' = ExampleSubjects
    /\ last' = Last("autofill", <<>>, 0, "success")
    /\ UNCHANGED <<plan, progress, streaks, notifications, auth, call, session2>>
    /\ persist_user(Learner)

\* Clear resetting the streak as well.
ClearStreakToo ==
    /\ SignedIn
    /\ plan' = NoPlan
    /\ subjects' = <<>>
    /\ progress' = <<>>
    /\ streaks' = NoStreak
    /\ last' = Last("clear", <<>>, 0, "success")
    /\ UNCHANGED <<notifications, auth, call, session2>>
    /\ persist_user(Learner)

\* "Clear schedule & subjects".
Clear ==
    /\ SignedIn
    /\ plan' = NoPlan
    /\ subjects' = <<>>
    /\ progress' = <<>>
    /\ last' = Last("clear", <<>>, 0, "success")
    /\ UNCHANGED <<streaks, notifications, auth, call, session2>>
    /\ persist_user(Learner)

----------------------------------------------------------------------------
\* page_tasks: shown only when a plan exists.

\* A completion that also closes every earlier entry of the ledger.
CompleteThrough(i) ==
    /\ SignedIn
    /\ ~PlanFalsy(plan)
    /\ i \in 1..Len(progress)
    /\ CanComplete(progress[i])
    /\ streaks.current < MaxStreak
    /\ progress' = [k \in 1..Len(progress) |->
                      IF k <= i
                      THEN [progress[k] EXCEPT !.completed = TRUE, !.date = streaks.current + 1]
                      ELSE progress[k]]
    /\ streaks' = StreakAfter(streaks)
    /\ last' = Last("complete", progress[i].day, 0, "success")
    /\ UNCHANGED <<subjects, plan, notifications, auth, call, session2>>
    /\ persist_user(Learner)

\* "Mark {day} Complete": the button exists only for an entry not completed.
\* The completion time is the time of the click; clicks are ordered, and the
\* time of the k-th completion is written k.
Complete(i) ==
    /\ SignedIn
    /\ ~PlanFalsy(plan)
    /\ i \in 1..Len(progress)
    /\ CanComplete(progress[i])
    /\ streaks.current < MaxStreak
    /\ progress' = [progress EXCEPT ![i].completed = TRUE, ![i].date = streaks.current + 1]
    /\ streaks' = StreakAfter(streaks)
    /\ last' = Last("complete", progress[i].day, 0, "success")
    /\ UNCHANGED <<subjects, plan, notifications, auth, call, session2>>
    /\ persist_user(Learner)

\* "Skip {day} (Carry Forward)": the button exists for every entry.
Skip(i) ==
    /\ SignedIn
    /\ ~PlanFalsy(plan)
    /\ i \in 1..Len(progress)
    /\ Len(progress[i].day) >= 2 => progress[i].day[2] < MaxLabel
    /\ UNCHANGED <<subjects, plan, streaks, notifications, auth, call, session2>>
    /\ LET entry == progress[i]
           day == entry.day
       IN  IF entry.tasks = <<>>
           THEN /\ last' = Last("skip", day, 0, "warning")
                /\ UNCHANGED <<progress, saved>>
           ELSE LET idx_in_list == IndexOf(progress, entry)
                    next_label == NextLabel(day)
                    found == {j \in 1..Len(progress) : progress[j].day = next_label}
                    moved ==
                        IF found # {}
                        THEN LET j == CHOOSE k \in found : \A m \in found : k <= m
                             IN  CarryInto(progress, j, entry.tasks)
                        ELSE InsertAt(progress, idx_in_list + 1,
                                      Entry(next_label, entry.tasks, FALSE, NoDate))
                IN  /\ progress' = RemoveAt(moved, IndexOf(moved, entry))
                    /\ last' = Last("skip", day, 0, "success")
                    /\ persist_user(Learner)

----------------------------------------------------------------------------
\* Dashboard with the ledger's task lists being the plan's own lists (no
\* copy at generation): the sort reorders the plan's list of that day, too.
DashboardShared ==
    /\ SignedIn
    /\ LET open == {i \in 1..Len(progress) : ~progress[i].completed}
       IN  IF open # {} /\ progress[CHOOSE i \in open : \A j \in open : i <= j].tasks # <<>>
           THEN LET a == CHOOSE i \in open : \A j \in open : i <= j
                IN  /\ progress' = [progress EXCEPT ![a].tasks = SortByHours(@, <<>>)]
                    /\ plan' = [plan EXCEPT !.days =
                                   [k \in 1..Len(plan.days) |->
                                       IF plan.days[k].day = progress[a].day
                                       THEN [plan.days[k] EXCEPT !.tasks = SortByHours(@, <<>>)]
                                       ELSE plan.days[k]]]
           ELSE UNCHANGED <<progress, plan>>
    /\ last' = Last("dashboard", <<>>, 0, "none")
    /\ UNCHANGED <<subjects, streaks, notifications, auth, saved, call, session2>>

\* run_app, page "Dashboard": "Today's Focus" sorts the tasks of the first
\* entry not completed, in place.
Dashboard ==
    /\ SignedIn
    /\ LET open == {i \in 1..Len(progress) : ~progress[i].completed}
       IN  IF open # {} /\ progress[CHOOSE i \in open : \A j \in open : i <= j].tasks # <<>>
           THEN LET a == CHOOSE i \in open : \A j \in open : i <= j
                IN  progress' = [progress EXCEPT ![a].tasks = SortByHours(@, <<>>)]
           ELSE UNCHANGED progress
    /\ last' = Last("dashboard", <<>>, 0, "none")
    /\ UNCHANGED <<subjects, plan, streaks, notifications, auth, saved, call, session2>>

----------------------------------------------------------------------------
Next ==
    \/ \E s \in SubjectForms : AddSubject(s.name, s.difficulty)
    \/ \E h \in HoursChoices, d \in DaysChoices, e \in ExamDates, f \in SUBSET SubjectNames :
          Generate(h, d, e, f)
    \/ Regenerate
    \/ AutoFill
    \/ Clear
    \/ \E i \in 1..MaxLabel : Complete(i)
    \/ \E i \in 1..MaxLabel : Skip(i)
    \/ Dashboard

Spec == Init /\ [][Next]_vars

----------------------------------------------------------------------------
\* smart_generate_plan called directly: the inputs are drawn, then the
\* function is applied to them.

CallHours == {50 * k : k \in -1..CallMaxHalfHours}
CallDays == 0..CallMaxDays
CallExamDates == {NoExam, ExamIn(-2), ExamIn(3), ExamIn(20), ExamIn(40)}

InitCall ==
    /\ subjects = <<>>
    /\ plan = NoPlan
    /\ progress = <<>>
    /\ streaks = NoStreak
    /\ notifications = NoNotes
    /\ users = DemoUsers
    /\ logged_in = NoUser
    /\ show_signup = FALSE
    /\ show_forgot = FALSE
    /\ saved = <<>>
    /\ last = Last("init", <<>>, 0, "none")
    /\ call \in [subs : SubjectLists, hours : CallHours, days : CallDays,
                 exam : CallExamDates, focus : SUBSET SubjectNames,
                 done : {FALSE}, result : {NoPlan}]
    /\ session2 = NoSession

ApplyCall ==
    /\ ~call.done
    /\ \E p \in smart_generate_plan(call.subs, call.hours, call.days, call.exam, call.focus) :
          call' = [call EXCEPT !.done = TRUE, !.result = p]
    /\ UNCHANGED <<subjects, plan, progress, streaks, notifications, auth, saved, last, session2>>

SpecCall == InitCall /\ [][ApplyCall]_vars

----------------------------------------------------------------------------
\* The logged-out page (page_login, page_signup_inline, page_forgot_inline)
\* and "Sign out", from the first start of the app with an empty data/.

\* users.get(username)
HasUser(username) == \E i \in 1..Len(users) : users[i].username = username
UserOf(username) == users[CHOOSE i \in 1..Len(users) : users[i].username = username]

\* The first user, in dict order, with that email; 0 for None.
FoundByEmail(email) ==
    IF \E i \in 1..Len(users) : users[i].email = email
    THEN CHOOSE i \in 1..Len(users) :
             users[i].email = email /\ \A j \in 1..(i - 1) : users[j].email # email
    ELSE 0

\* f"Password reset simulated: token {token}", the random token left out.
ResetNote == "Password reset simulated: token"

\* ForgotNotice telling whether the email was found.
ForgotNoticeLeaky(found) ==
    IF found = 0 THEN "error: No account uses this email."
    ELSE "info: A reset link has been stored in your Notifications."

\* The message page_forgot_inline shows.
ForgotNotice(found) ==
    "info: If the email exists, a reset link has been simulated and stored in Notifications."

\* The fields submitted on the login page.
SignupUsernames == {"", "user1", "user2"}
SignupEmails == {"", "alex@example.com", "sam@example.com"}
Passwords == {"pass123", "pw2"}
ForgotEmails == {"", "alex@example.com", "sam@example.com", "nobody@example.com"}

InitAuth ==
    /\ subjects = <<>>
    /\ plan = NoPlan
    /\ progress = <<>>
    /\ streaks = NoStreak
    /\ notifications = NoNotes
    /\ users = DemoUsers
    /\ logged_in = NoUser
    /\ show_signup = FALSE
    /\ show_forgot = FALSE
    /\ saved = <<>>
    /\ last = Last("init", <<>>, 0, "none")
    /\ call = NoCall
    /\ session2 = NoSession

\* logged_in = username; ensure_user_storage; the user's file, if there is
\* one, is loaded; persist_user.
SignInAs(username) ==
    /\ logged_in' = username
    /\ IF username \in DOMAIN saved
       THEN /\ notifications' = [notifications EXCEPT ![username] = saved[username].notifications]
            /\ IF username = Learner
               THEN /\ subjects' = saved[username].subjects
                    /\ plan' = saved[username].plan
                    /\ progress' = saved[username].progress
                    /\ streaks' = saved[username].streaks
               ELSE UNCHANGED <<subjects, plan, progress, streaks>>
       ELSE UNCHANGED <<subjects, plan, progress, streaks, notifications>>
    /\ persist_user(username)

\* "Sign in"
SignIn(username, password) ==
    /\ logged_in = NoUser
    /\ UNCHANGED <<users, show_signup, show_forgot, call, session2>>
    /\ IF HasUser(username) /\ UserOf(username).password = password
       THEN /\ SignInAs(username)
            /\ last' = Last("sign_in", <<>>, 0, "success")
       ELSE /\ last' = Last("sign_in", <<>>, 0, "error")
            /\ UNCHANGED <<subjects, plan, progress, streaks, notifications, logged_in, saved>>

\* "Continue as demo user"
DemoSignIn ==
    /\ logged_in = NoUser
    /\ SignInAs("user1")
    /\ last' = Last("demo_sign_in", <<>>, 0, "success")
    /\ UNCHANGED <<users, show_signup, show_forgot, call, session2>>

\* RevealSignup leaving the other form as it is.
RevealSignupOnly ==
    /\ logged_in = NoUser
    /\ show_signup' = TRUE
    /\ last' = Last("reveal_signup", <<>>, 0, "none")
    /\ UNCHANGED <<subjects, plan, progress, streaks, notifications, users, logged_in,
                   show_forgot, saved, call, session2>>

\* "Create account" (the button that reveals the form)
RevealSignup ==
    /\ logged_in = NoUser
    /\ show_signup' = TRUE
    /\ show_forgot' = FALSE
    /\ last' = Last("reveal_signup", <<>>, 0, "none")
    /\ UNCHANGED <<subjects, plan, progress, streaks, notifications, users, logged_in, saved, call, session2>>

\* "Forgot password" (the button that reveals the form)
RevealForgot ==
    /\ logged_in = NoUser
    /\ show_forgot' = TRUE
    /\ show_signup' = FALSE
    /\ last' = Last("reveal_forgot", <<>>, 0, "none")
    /\ UNCHANGED <<subjects, plan, progress, streaks, notifications, users, logged_in, saved, call, session2>>

\* "Create account" (the form's submit button)
SubmitSignup(username, email, password) ==
    /\ logged_in = NoUser
    /\ show_signup
    /\ UNCHANGED <<subjects, plan, progress, streaks, notifications, logged_in, show_forgot, call, session2>>
    /\ IF username = "" \/ password = "" \/ email = "" \/ HasUser(username)
       THEN /\ last' = Last("signup", <<>>, 0, "error")
            /\ UNCHANGED <<users, show_signup, saved>>
       ELSE /\ users' = Append(users, Account(username, email, password))
            /\ show_signup' = FALSE
            /\ last' = Last("signup", <<>>, 0, "success")
            /\ persist_user(username)

\* "Send reset link"
SubmitForgot(email) ==
    /\ logged_in = NoUser
    /\ show_forgot
    /\ LET found == FoundByEmail(email)
       IN  /\ found # 0 => Len(notifications[users[found].username]) < MaxNotes
           /\ UNCHANGED <<subjects, plan, progress, streaks, users, logged_in, show_signup, call, session2>>
           /\ show_forgot' = FALSE
           /\ last' = Last("forgot", <<>>, 0, ForgotNotice(found))
           /\ IF found # 0
              THEN /\ notifications' =
                         [notifications EXCEPT ![users[found].username] = Append(@, ResetNote)]
                   /\ persist_user(users[found].username)
              ELSE UNCHANGED <<notifications, saved>>

\* "Sign out"
SignOut ==
    /\ logged_in # NoUser
    /\ logged_in' = NoUser
    /\ show_signup' = FALSE
    /\ show_forgot' = FALSE
    /\ last' = Last("sign_out", <<>>, 0, "none")
    /\ UNCHANGED <<subjects, plan, progress, streaks, notifications, users, saved, call, session2>>

NextAuth ==
    \/ \E u \in Usernames, pw \in Passwords : SignIn(u, pw)
    \/ DemoSignIn
    \/ RevealSignup
    \/ RevealForgot
    \/ \E u \in SignupUsernames, e \in SignupEmails, pw \in Passwords : SubmitSignup(u, e, pw)
    \/ \E e \in ForgotEmails : SubmitForgot(e)
    \/ SignOut

SpecAuth == InitAuth /\ [][NextAuth]_vars

\* The call's inputs are the ones the claims about generation cover.
ValidCall == call.done /\ call.subs # <<>> /\ call.hours >= 50 /\ call.days >= 1

----------------------------------------------------------------------------
\* Properties.

\* C1: in every plan smart_generate_plan returns for a non-empty subject list,
\* hours_per_day >= 0.5 and days >= 1, each day's task hours (the
\* "Review & Breaks" task included) sum to at most hours_per_day + 0.01.
C1_BudgetBound ==
    ValidCall =>
        \A i \in 1..Len(call.result.days) :
            TaskHours(call.result.days[i].tasks) <= call.hours + 1

\* A plan with a day of two subject tasks and a closing "Review & Breaks"
\* task that uses the day's budget to the full.
C1_Witness ==
    /\ ValidCall
    /\ \E i \in 1..Len(call.result.days) :
          LET tasks == call.result.days[i].tasks
          IN  /\ Len(tasks) = 3
              /\ tasks[3].subject = "Review & Breaks"
              /\ TaskHours(tasks) = call.hours

\* C2: in every reachable state every task of the stored plan and of every
\* ledger entry has hours > 0.
C2_PositiveHours ==
    /\ \A i \in 1..Len(plan.days) : \A k \in 1..Len(plan.days[i].tasks) :
          plan.days[i].tasks[k].hours > 0
    /\ \A i \in 1..Len(progress) : \A k \in 1..Len(progress[i].tasks) :
          progress[i].tasks[k].hours > 0

\* After a skip that merged a day into the next one, with a plan stored: the
\* ledger is shorter than the plan and its tasks are the carried ones.
C2_Witness ==
    /\ plan.present
    /\ last.op = "skip"
    /\ Len(progress) < Len(plan.days)
    /\ \E i \in 1..Len(progress) : Len(progress[i].tasks) >= 3

\* C3: a successful generation for d days stores a plan whose keys are
\* "Day 1" .. "Day d" in that order, and a ledger with one entry per plan day
\* in the same order.
C3_DayCoverage ==
    (last.op = "generate" /\ last.kind = "success") =>
        /\ plan.present
        /\ Len(plan.days) = last.n
        /\ \A i \in 1..Len(plan.days) : plan.days[i].day = <<"Day", i>>
        /\ Len(progress) = last.n
        /\ \A i \in 1..Len(progress) : progress[i].day = plan.days[i].day

\* Right after a generation for the largest day count offered.
C3_Witness ==
    /\ last.op = "generate"
    /\ last.kind = "success"
    /\ last.n = MaxDays
    /\ Len(progress) = MaxDays

\* The ledger's tasks, entry after entry.
RECURSIVE LedgerTasks(_)
LedgerTasks(ledger) ==
    IF ledger = <<>> THEN <<>> ELSE Head(ledger).tasks \o LedgerTasks(Tail(ledger))

CountIn(seq, x) == Cardinality({k \in 1..Len(seq) : seq[k] = x})

SameBag(a, b) ==
    /\ Len(a) = Len(b)
    /\ \A k \in 1..Len(a) : CountIn(a, a[k]) = CountIn(b, a[k])

HasLabel(ledger, label) == \E i \in 1..Len(ledger) : ledger[i].day = label
LabelIndex(ledger, label) ==
    CHOOSE i \in 1..Len(ledger) :
        ledger[i].day = label /\ \A j \in 1..(i - 1) : ledger[j].day # label

\* The step is a skip that carried tasks forward.
SkipStep == last'.op = "skip" /\ last'.kind = "success"

\* C4: best >= current in every state, and every completion raises current
\* by exactly 1.
C4_Streak ==
    /\ [](streaks.best >= streaks.current)
    /\ [][last'.op = "complete" => streaks'.current = streaks.current + 1]_vars

\* Two days completed one after the other.
C4_Witness ==
    /\ last.op = "complete"
    /\ streaks.current = 2
    /\ streaks.best = 2

\* C5: a skip of an entry with tasks leaves the ledger's total hours and its
\* multiset of (subject, hours, note) tasks unchanged.
C5_SkipConserves ==
    [][SkipStep =>
          /\ TaskHours(LedgerTasks(progress')) = TaskHours(LedgerTasks(progress))
          /\ SameBag(LedgerTasks(progress'), LedgerTasks(progress))]_vars

\* Two skips in a row carried every task of a two-day plan to "Day 3".
C5_Witness ==
    /\ last.op = "skip"
    /\ last.kind = "success"
    /\ Len(progress) = 1
    /\ progress[1].day = <<"Day", 3>>
    /\ Len(progress[1].tasks) >= 4

C7_SkipMerges ==
    [][(SkipStep /\ HasLabel(progress, NextLabel(last'.day))) =>
          LET next_label == NextLabel(last'.day)
              i == LabelIndex(progress, last'.day)
              j == LabelIndex(progress, next_label)
          IN  /\ ~HasLabel(progress', last'.day)
              /\ HasLabel(progress', next_label)
              /\ progress'[LabelIndex(progress', next_label)].tasks
                     = progress[j].tasks \o progress[i].tasks]_vars

\* "Day 1" skipped into a "Day 2" that was there: one entry is left.
C7_Witness ==
    /\ last.op = "skip"
    /\ last.kind = "success"
    /\ last.day = <<"Day", 1>>
    /\ Len(progress) = 1
    /\ progress[1].day = <<"Day", 2>>
    /\ Len(progress[1].tasks) >= 4

\* C8: skip("Day N") with no entry "Day N+1": a Pending entry "Day N+1" with
\* the skipped tasks takes the skipped entry's index, the other entries and
\* the ledger's length are unchanged.
C8_SkipInserts ==
    [][(SkipStep /\ ~HasLabel(progress, NextLabel(last'.day))) =>
          LET i == LabelIndex(progress, last'.day)
          IN  /\ Len(progress') = Len(progress)
              /\ progress'[i] = Entry(NextLabel(last'.day), progress[i].tasks, FALSE, NoDate)
              /\ \A k \in 1..Len(progress) : k # i => progress'[k] = progress[k]]_vars

\* "Day 1" skipped in the ledger "Day 1", "Day 3": the new "Day 2" comes
\* before "Day 3".
C8_Witness ==
    /\ last.op = "skip"
    /\ last.kind = "success"
    /\ last.day = <<"Day", 1>>
    /\ Len(progress) = 2
    /\ progress[1].day = <<"Day", 2>>
    /\ progress[2].day = <<"Day", 3>>

\* C9: generation with an empty subject list, hours_per_day <= 0 or
\* days < 1 fails with InvalidInput: no plan comes back.
C9_InvalidInputFails ==
    (call.done /\ (call.subs = <<>> \/ call.hours <= 0 \/ call.days < 1)) =>
        ~call.result.present

\* The hours a plan gives a subject, over all its days.
SubjectTotal(p, name) ==
    TaskHours(SelectSeq(LedgerTasks(p.days), LAMBDA t : t.subject = name))

ScenarioSubjects == <<Subject("Math", "hard"), Subject("History", "easy")>>

\* C10: for [Math: hard, History: easy], 4 hours a day, 2 days, the plan
\* generated with the exam 3 days away gives Math strictly more hours than
\* the plan generated with no exam date.
C10_ExamRaisesMath ==
    (/\ call.done
     /\ call.subs = ScenarioSubjects
     /\ call.hours = 400
     /\ call.days = 2
     /\ call.exam = ExamIn(3)
     /\ call.focus = {}) =>
        \A p \in smart_generate_plan(ScenarioSubjects, 400, 2, NoExam, {}) :
            SubjectTotal(call.result, "Math") > SubjectTotal(p, "Math")

\* C11: for a list of one hard and one easy subject, no exam date and no
\* focus set, and every valid hours_per_day and days, the hard subject's
\* total hours over the plan exceed the easy subject's, and every day's
\* hours sum to at most hours_per_day.
C11_HardOverEasy ==
    (/\ ValidCall
     /\ Len(call.subs) = 2
     /\ call.subs[1].name # call.subs[2].name
     /\ {call.subs[1].difficulty, call.subs[2].difficulty} = {"hard", "easy"}
     /\ call.exam = NoExam
     /\ call.focus = {}) =>
        LET h == CHOOSE k \in 1..2 : call.subs[k].difficulty = "hard"
            e == 3 - h
        IN  /\ SubjectTotal(call.result, call.subs[h].name)
                  > SubjectTotal(call.result, call.subs[e].name)
            /\ \A i \in 1..Len(call.result.days) :
                  TaskHours(call.result.days[i].tasks) <= call.hours

\* C12: a regeneration on an existing plan stores a plan the planner yields
\* for the stored plan's day count and for hours_per_day = the total hours
\* of the stored plan's "Day 1", and replaces the ledger by one Pending
\* entry without completion time per day of the new plan, whatever was
\* completed or skipped before.
C12_RegenerateFresh ==
    [][(last'.op = "regenerate" /\ last'.kind = "success") =>
          /\ Len(plan'.days) = Len(plan.days)
          /\ plan' \in smart_generate_plan(subjects, TaskHours(PlanGet(plan, DayLabel(1))),
                                           Len(plan.days), NoExam, {})
          /\ Len(progress') = Len(plan'.days)
          /\ \A i \in 1..Len(progress') :
                progress'[i] = Entry(plan'.days[i].day, plan'.days[i].tasks, FALSE, NoDate)]_vars

\* A regeneration of a two-day plan after a completion.
C12_Witness ==
    /\ last.op = "regenerate"
    /\ last.kind = "success"
    /\ streaks.current >= 1
    /\ Len(plan.days) = 2
    /\ Len(progress) = 2

\* C13: a skip that merges the skipped entry into an existing next day
\* lowers the plan's day count: the number of days the Dashboard reports
\* and the day count a later Regenerate reuses (both len(plan)).
C13_SkipLowersDayCount ==
    [][(SkipStep /\ HasLabel(progress, NextLabel(last'.day))) =>
          total_days(plan') < total_days(plan)]_vars

\* C14: the plan's task lists and the ledger's are separate storage: no
\* skip, completion or Dashboard rendering changes the stored plan, while
\* they do change the ledger that was copied from it.
C14_PlanUntouched ==
    [][last'.op \in {"skip", "complete", "dashboard"} => plan' = plan]_vars

\* The Dashboard has reordered the tasks of a ledger entry; the plan keeps
\* the day's tasks in the order they were generated in.
C14_Witness ==
    /\ last.op = "dashboard"
    /\ plan.present
    /\ Len(progress) = Len(plan.days)
    /\ \E i \in 1..Len(progress) :
          /\ progress[i].day = plan.days[i].day
          /\ progress[i].tasks # plan.days[i].tasks
          /\ progress[i].tasks = SortByHours(plan.days[i].tasks, <<>>)

\* C15: no operation lowers the streak: current and best never decrease,
\* and skip, generate, regenerate and clear leave both as they are.
C15_StreakMonotone ==
    /\ [][/\ streaks'.current >= streaks.current
          /\ streaks'.best >= streaks.best]_vars
    /\ [][last'.op \in {"skip", "generate", "regenerate", "clear"} => streaks' = streaks]_vars

\* Plan and ledger cleared after two completions: the streak is still 2.
C15_Witness ==
    /\ last.op = "clear"
    /\ progress = <<>>
    /\ streaks.current = 2
    /\ streaks.best = 2

\* C16: plan and ledger live and die together: in every reachable state the
\* plan is absent exactly when the ledger is empty; clear removes both, and
\* a skip never empties the ledger.
C16_Lifecycle ==
    /\ [](plan.present <=> progress # <<>>)
    /\ [][last'.op = "clear" => (~plan'.present /\ progress' = <<>>)]_vars
    /\ [][SkipStep => progress' # <<>>]_vars

\* Both days of a two-day plan skipped: the ledger is down to one entry,
\* "Day 3", and the plan is still there.
C16_Witness ==
    /\ last.op = "skip"
    /\ last.day = <<"Day", 2>>
    /\ plan.present
    /\ Len(plan.days) = 2
    /\ Len(progress) = 1

\* C17: in every state between two operations the snapshot persistence
\* received last equals the learner's in-memory state (subjects, plan,
\* ledger, streak, notifications): no step changes the in-memory ledger
\* without persisting it.
C17_PersistedIsCurrent ==
    /\ Learner \in DOMAIN saved
    /\ saved[Learner] = Payload(subjects, plan, progress, streaks, notifications[Learner])

\* C18: on the logged-out page both forms are hidden at first, a flag turns
\* true only by its own reveal button, the two flags are never true
\* together, and both are false after sign-out.
C18_AuthForms ==
    /\ (~show_signup /\ ~show_forgot)
    /\ [](~(show_signup /\ show_forgot))
    /\ [][(show_signup' /\ ~show_signup) => last'.op = "reveal_signup"]_vars
    /\ [][(show_forgot' /\ ~show_forgot) => last'.op = "reveal_forgot"]_vars
    /\ [][last'.op = "sign_out" => (~show_signup' /\ ~show_forgot' /\ logged_in' = NoUser)]_vars

\* The forgot-password form revealed after an account was created through
\* the signup form.
C18_Witness ==
    /\ last.op = "reveal_forgot"
    /\ show_forgot
    /\ ~show_signup
    /\ Len(users) = 2

\* C19: a ledger entry goes from Pending to Completed only: an entry that is
\* Completed stays Completed as long as an entry with its label is in the
\* ledger (generate, regenerate and clear replace the ledger), and in every
\* state an entry has a completion time exactly when it is Completed.
C19_EntryStates ==
    /\ [](\A i \in 1..Len(progress) : progress[i].completed <=> progress[i].date # NoDate)
    /\ [][last'.op \in {"skip", "complete", "dashboard", "add_subject", "autofill"} =>
             \A i \in 1..Len(progress) :
                 (progress[i].completed /\ HasLabel(progress', progress[i].day)) =>
                     progress'[LabelIndex(progress', progress[i].day)].completed]_vars

\* "Day 1" skipped into a "Day 2" that was Completed: "Day 2" is still
\* Completed and holds the tasks of both days.
C19_Witness ==
    /\ last.op = "skip"
    /\ last.kind = "success"
    /\ last.day = <<"Day", 1>>
    /\ Len(progress) = 1
    /\ progress[1].day = <<"Day", 2>>
    /\ progress[1].completed
    /\ progress[1].date # NoDate

-----------------------------------------------------------------------------
\* C21: "Mark {day} Complete" changes only the completed flag and the
\* completion time of the entry it was clicked for, and the streak: the
\* ledger keeps its length and order, every entry keeps its label and its
\* task list, every other entry keeps its flag and time, and the Plan and the
\* subjects are unchanged.
CompleteStep == last'.op = "complete" /\ last'.kind = "success"

C21_CompleteFrame ==
    [][CompleteStep =>
         /\ plan' = plan
         /\ subjects' = subjects
         /\ Len(progress') = Len(progress)
         /\ \A k \in 1..Len(progress) :
               /\ progress'[k].day = progress[k].day
               /\ progress'[k].tasks = progress[k].tasks
               /\ progress[k].day # last'.day => progress'[k] = progress[k]
               /\ progress[k].day = last'.day =>
                     /\ ~progress[k].completed
                     /\ progress'[k].completed
         /\ streaks'.current = streaks.current + 1]_vars

\* A ledger of two entries in which Day 2 was completed and Day 1 is still
\* Pending: the completion touched only the entry it was clicked for.
C21_Witness ==
    /\ last.op = "complete"
    /\ last.day = DayLabel(2)
    /\ Len(progress) = 2
    /\ progress[2].completed
    /\ ~progress[1].completed
    /\ ~PlanFalsy(plan)

-----------------------------------------------------------------------------
\* C22: in every state reached by generate, regenerate, skip and complete, the
\* ledger's day labels are pairwise distinct, every label has the form
\* "Day N" with N >= 1 (the fallback label of skip never appears), and the
\* entries are in strictly increasing order of N.
IsDayLabel(day) == Len(day) = 2 /\ day[1] = "Day" /\ day[2] \in Nat /\ day[2] >= 1

C22_LabelsOrdered ==
    /\ \A i \in 1..Len(progress) : IsDayLabel(progress[i].day)
    /\ \A i, j \in 1..Len(progress) : i < j => progress[i].day[2] < progress[j].day[2]

\* A skip of Day 1 after Day 2 had been skipped: the ledger in memory is
\* Day 2, Day 3, the new entry having taken the place of the skipped one.
C22_Witness ==
    /\ last.op = "skip"
    /\ last.kind = "success"
    /\ last.day = DayLabel(1)
    /\ Len(progress) = 2
    /\ progress[1].day = DayLabel(2)
    /\ progress[2].day = DayLabel(3)

-----------------------------------------------------------------------------
\* C23: after a skip the carried tasks are in a Pending entry: the entry
\* labelled with the following day is not Completed, and every entry that
\* survives the skip keeps its completed flag and its completion time.
C23_CarriedIntoPending ==
    [][SkipStep =>
         /\ \A k \in 1..Len(progress') :
               progress'[k].day = NextLabel(last'.day) => ~progress'[k].completed
         /\ \A k \in 1..Len(progress') :
               HasLabel(progress, progress'[k].day) /\ progress'[k].day # last'.day =>
                   LET e == progress[LabelIndex(progress, progress'[k].day)]
                   IN  /\ progress'[k].completed = e.completed
                       /\ progress'[k].date = e.date]_vars

-----------------------------------------------------------------------------
\* C24: every day of the generated plan has at least one task, every entry of
\* the ledger has at least one task after any sequence of skips and
\* completions, and the skip handler never answers "This day has no tasks to
\* skip".
C24_NoEmptyDay ==
    /\ \A k \in 1..Len(plan.days) : plan.days[k].tasks # <<>>
    /\ \A k \in 1..Len(progress) : progress[k].tasks # <<>>
    /\ ~(last.op = "skip" /\ last.kind = "warning")

\* A skip after a completion: Day 1 completed, Day 2 carried into a new
\* Day 3, which holds the tasks of Day 2.
C24_Witness ==
    /\ last.op = "skip"
    /\ last.kind = "success"
    /\ last.day = DayLabel(2)
    /\ Len(plan.days) = 2
    /\ Len(progress) = 2
    /\ progress[1].completed
    /\ progress[2].day = DayLabel(3)
    /\ progress[2].tasks = plan.days[2].tasks

-----------------------------------------------------------------------------
\* The scheduler used with no exam date and no priority subject, over the
\* hours the "Target Hours/Day" input offers up to RegenMaxHalfHours half
\* hours: subjects are added or auto-filled, a schedule is generated and
\* "Regenerate with same settings" is clicked any number of times.

RegenMaxHalfHours == 16
RegenHours == {50 * k : k \in 1..RegenMaxHalfHours}

NextRegen ==
    \/ \E s \in SubjectForms : AddSubject(s.name, s.difficulty)
    \/ AutoFill
    \/ \E h \in RegenHours, d \in DaysChoices : Generate(h, d, NoExam, {})
    \/ Regenerate

SpecRegen == Init /\ [][NextRegen]_vars

\* C25: "Regenerate with same settings" is idempotent for a plan generated
\* with no exam date and no focus set: Day 1 of the plan sums to the
\* hours_per_day it was generated with, and a regeneration with unchanged
\* subjects leaves the plan as it was, however often it is repeated.
RegenerateStep == last'.op = "regenerate" /\ last'.kind = "success"

C25_RegenerateIdempotent ==
    [][RegenerateStep =>
         /\ plan' = plan
         /\ TaskHours(PlanGet(plan', DayLabel(1))) = TaskHours(PlanGet(plan, DayLabel(1)))]_vars

-----------------------------------------------------------------------------
\* C26: rendering the Dashboard is read-only: the ledger after it is the
\* ledger before it, the order of the tasks inside every entry included.
C26_DashboardReadOnly ==
    [][last'.op = "dashboard" => progress' = progress]_vars

-----------------------------------------------------------------------------
\* C27: Streak.current is the number of Completed entries of the current
\* ledger that form an unbroken run (the longest run of adjacent Completed
\* entries), in every state reached from {0, 0}.
RECURSIVE RunEndingAt(_, _)
RunEndingAt(ledger, k) ==
    IF k = 0 \/ ~ledger[k].completed THEN 0 ELSE 1 + RunEndingAt(ledger, k - 1)

CompletedRun(ledger) ==
    LET runs == {RunEndingAt(ledger, k) : k \in 0..Len(ledger)}
    IN  CHOOSE n \in runs : \A m \in runs : m <= n

C27_StreakIsRun == streaks.current = CompletedRun(progress)

-----------------------------------------------------------------------------
\* Two browser sessions of the same learner. Each session has its own
\* st.session_state; data/<username>.json is shared. The first session is
\* held by the variables subjects, plan, progress, streaks, notifications,
\* logged_in and last, the second by session2. A handler runs from the click
\* to its return without the other session's handler in between.

\* persist_user(username), run in the second session.
persist_session2 ==
    saved' = (Learner :> Payload(session2'.subjects, session2'.plan, session2'.progress,
                                 session2'.streaks, session2'.notifications)) @@ saved

\* "Continue as demo user" (or "Sign in") in the second session: the
\* learner's file, if there is one, is loaded; persist_user.
Session2SignIn ==
    /\ session2.logged_in = NoUser
    /\ session2' =
          IF Learner \in DOMAIN saved
          THEN Session(Learner, saved[Learner].subjects, saved[Learner].plan,
                       saved[Learner].progress, saved[Learner].streaks,
                       saved[Learner].notifications,
                       Last("demo_sign_in", <<>>, 0, "success"))
          ELSE [session2 EXCEPT !.logged_in = Learner,
                                !.last = Last("demo_sign_in", <<>>, 0, "success")]
    /\ persist_session2
    /\ UNCHANGED <<subjects, plan, progress, streaks, notifications, auth, last, call>>

\* "Mark {day} Complete" in the second session.
Session2Complete(i) ==
    /\ session2.logged_in = Learner
    /\ ~PlanFalsy(session2.plan)
    /\ i \in 1..Len(session2.progress)
    /\ CanComplete(session2.progress[i])
    /\ session2.streaks.current < MaxStreak
    /\ session2' =
          [session2 EXCEPT !.progress[i].completed = TRUE,
                           !.progress[i].date = session2.streaks.current + 1,
                           !.streaks = StreakAfter(@),
                           !.last = Last("complete", session2.progress[i].day, 0, "success")]
    /\ persist_session2
    /\ UNCHANGED <<subjects, plan, progress, streaks, notifications, auth, last, call>>

\* Both sessions were started, and are logged out, with a schedule of at
\* least two days on disk that the learner generated earlier; each session
\* loaded the file when it started.
InitTwo ==
    \E subs \in SubjectLists \ {<<>>}, h \in HoursChoices, d \in DaysChoices \ {1} :
      \E p \in PlansFor(subs, h, d, NoExam, {}) :
        /\ subjects = subs
        /\ plan = p
        /\ progress = LedgerOf(p)
        /\ streaks = NoStreak
        /\ notifications = NoNotes
        /\ users = DemoUsers
        /\ logged_in = NoUser
        /\ show_signup = FALSE
        /\ show_forgot = FALSE
        /\ saved = (Learner :> Payload(subs, p, LedgerOf(p), NoStreak, <<>>))
        /\ last = Last("init", <<>>, 0, "none")
        /\ call = NoCall
        /\ session2 = Session(NoUser, subs, p, LedgerOf(p), NoStreak, <<>>,
                              Last("init", <<>>, 0, "none"))

\* The first session completes Day 1, the second Day 2.
NextTwo ==
    \/ DemoSignIn
    \/ Complete(1)
    \/ Session2SignIn
    \/ Session2Complete(2)

SpecTwo == InitTwo /\ [][NextTwo]_vars

\* C28: with two sessions signed in as the same learner, each having loaded
\* the learner's snapshot at login and each having completed a different
\* Pending day, the persisted snapshot records both days as Completed and a
\* streak raised by 2, whatever the order of the four handlers was.
BothCompleted == last.op = "complete" /\ session2.last.op = "complete"

C28_NoLostUpdate ==
    BothCompleted =>
        /\ saved[Learner].progress[1].completed
        /\ saved[Learner].progress[2].completed
        /\ saved[Learner].streaks.current = 2

====
